---- MODULE Spec2Model ----
(***************************************************************************)
(* State-machine models of the stateful parts of the goodable templates:   *)
(*   - goodqunbot  app/wx_manager.py : WxManager (singleton, retry,        *)
(*                                      heartbeat)                         *)
(*   - goodqunbot  app/database.py + app/main.py : groups, group_members,  *)
(*                                      summaries, messages                *)
(*   - gooddowner  app/main.py       : download task table and worker      *)
(*   - coze2app_py app/main.py       : token configuration and the routes  *)
(*                                      that proxy to the Coze API         *)
(* Every subsystem has its own next-state relation and specification; the  *)
(* variables of the other subsystems stay at their initial values.         *)
(***************************************************************************)
EXTENDS Integers, Sequences, FiniteSets, TLC

VARIABLES
    \* ---- WxManager.__new__ (class-level state and the calling threads)
    _instance,      \* WxManager._instance: None or the id of the object
    _lock,          \* WxManager._lock: owner thread of the RLock, or None
    npc,            \* npc[t]: position of thread t inside WxManager()
    nret,           \* nret[t]: sequence of the objects WxManager() returned to t
    constructed     \* number of super().__new__(cls) calls made so far

newVars == <<_instance, _lock, npc, nret, constructed>>

VARIABLES
    \* ---- WxManager instance state (wx_manager.py lines 53-58) and its clock
    _wx,                \* None or the id of the WeChat object
    _last_heartbeat,    \* None or the time of the last successful heartbeat
    _retry_count,       \* failed creation attempts since the last success
    _connection_state,  \* cached result of the last heartbeat / creation
    now,                \* time.time(), in whole seconds
    nWeChat,            \* number of WeChat objects created so far
    wxcall              \* record of the most recent get_wx_instance call

wxVars == <<_wx, _last_heartbeat, _retry_count, _connection_state, now, nWeChat, wxcall>>

VARIABLES
    \* ---- goodqunbot SQLite tables groups and group_members (database.py)
    groups,         \* set of rows [id, name, member_count]
    group_members,  \* set of rows [group_id, member_name, member_order]
    group_ids,      \* ids returned by the insert_group calls of the last refresh_groups
    member_ret      \* value returned by the last insert_group_members

grpVars == <<groups, group_members, group_ids, member_ret>>

VARIABLES
    \* ---- goodqunbot tables summaries and messages, and POST /api/summaries
    summaries,      \* set of rows [id, group_id, status, message_count]
    messages,       \* set of rows [id, group_id, summary_id, msg_hash]
    sreq            \* sreq[r]: the create_summary request r (position and locals)

sumVars == <<summaries, messages, sreq>>

VARIABLES
    \* ---- gooddowner: the task table and the background workers
    download_tasks, \* download_tasks[task_id]: the task record (a dict)
    wpc             \* wpc[task_id]: position of download_video_task(task_id)

dlVars == <<download_tasks, wpc>>

VARIABLES
    \* ---- coze2app_py: the config file and the requests in progress
    config_file,    \* what read_config() returns for .coze-config.json
    creq,           \* the POST /api/config/token request
    preq            \* the request to a route that proxies to the Coze API

czVars == <<config_file, creq, preq>>

VARIABLES
    \* ---- goodqunbot: GET /api/groups/{group_name}/messages
    gm_call         \* the last request: its inputs, what the manager
                    \* returned and what the endpoint answered

msgVars == <<gm_call>>

VARIABLES
    \* ---- goodqunbot: WxManager.load_messages_by_date_range
    lm              \* the locals of the call and what it has observed

loadVars == <<lm>>

vars == <<newVars, wxVars, grpVars, sumVars, dlVars, czVars, msgVars, loadVars>>

\* Python's None; object ids and times are positive integers.
None == 0

(***************************************************************************)
(* WxManager.__new__ : double-checked creation under the class-level RLock *)
(***************************************************************************)
NumThreads == 3
MaxCalls == 2
Threads == 1..NumThreads

\* Steps of WxManager() leave the other subsystems alone.
NewFrame == UNCHANGED <<wxVars, grpVars, sumVars, dlVars, czVars, msgVars, loadVars>>

NewInit ==
    /\ _instance = None
    /\ _lock = None
    /\ npc = [t \in Threads |-> "idle"]
    /\ nret = [t \in Threads |-> <<>>]
    /\ constructed = 0

\* A thread evaluates WxManager()
NewCall(t) ==
    /\ npc[t] = "idle"
    /\ Len(nret[t]) < MaxCalls
    /\ npc' = [npc EXCEPT ![t] = "check1"]
    /\ UNCHANGED <<_instance, _lock, nret, constructed>>
    /\ NewFrame

\* line 61: if cls._instance is None (outside the lock)
NewCheck1(t) ==
    /\ npc[t] = "check1"
    /\ npc' = [npc EXCEPT ![t] = IF _instance = None THEN "acquire" ELSE "return"]
    /\ UNCHANGED <<_instance, _lock, nret, constructed>>
    /\ NewFrame

\* line 62: with cls._lock (blocks while another thread owns the lock)
NewAcquire(t) ==
    /\ npc[t] = "acquire"
    /\ _lock \in {None, t}
    /\ _lock' = t
    /\ npc' = [npc EXCEPT ![t] = "check2"]
    /\ UNCHANGED <<_instance, nret, constructed>>
    /\ NewFrame

\* Single-checked creation: the test inside the lock is dropped.
NewCheck2_Unchecked(t) ==
    /\ npc[t] = "check2"
    /\ npc' = [npc EXCEPT ![t] = "construct"]
    /\ UNCHANGED <<_instance, _lock, nret, constructed>>
    /\ NewFrame

\* line 63: if cls._instance is None (inside the lock)
NewCheck2(t) ==
    /\ npc[t] = "check2"
    /\ npc' = [npc EXCEPT ![t] = IF _instance = None THEN "construct" ELSE "release"]
    /\ UNCHANGED <<_instance, _lock, nret, constructed>>
    /\ NewFrame

\* line 64: cls._instance = super().__new__(cls)
NewConstruct(t) ==
    /\ npc[t] = "construct"
    /\ constructed' = constructed + 1
    /\ _instance' = constructed + 1
    /\ npc' = [npc EXCEPT ![t] = "release"]
    /\ UNCHANGED <<_lock, nret>>
    /\ NewFrame

\* end of the with block
NewRelease(t) ==
    /\ npc[t] = "release"
    /\ _lock' = None
    /\ npc' = [npc EXCEPT ![t] = "return"]
    /\ UNCHANGED <<_instance, nret, constructed>>
    /\ NewFrame

\* line 65: return cls._instance
NewReturn(t) ==
    /\ npc[t] = "return"
    /\ nret' = [nret EXCEPT ![t] = Append(@, _instance)]
    /\ npc' = [npc EXCEPT ![t] = "idle"]
    /\ UNCHANGED <<_instance, _lock, constructed>>
    /\ NewFrame

NewNext ==
    \E t \in Threads :
        \/ NewCall(t)
        \/ NewCheck1(t)
        \/ NewAcquire(t)
        \/ NewCheck2(t)
        \/ NewConstruct(t)
        \/ NewRelease(t)
        \/ NewReturn(t)

(***************************************************************************)
(* WxManager: get_wx_instance, _create_instance, _check_connection,        *)
(* _cleanup_instance.  get_wx_instance runs under the RLock and is the     *)
(* only entry to the other three, so one call is one step.  The outcomes   *)
(* of the wxauto_lib calls (FindWindow, WeChat(), GetSession) are inputs.  *)
(***************************************************************************)
_MAX_RETRY_COUNT == 3
_HEARTBEAT_INTERVAL == 60
StartTime == 1
MaxNow == 130

\* what the automation library can answer
FindWindowOutcomes == {"found", "missing", "raise"}
WeChatOutcomes == {"ok", "LookupError", "Exception", "nonick"}
GetSessionOutcomes == {"sessions", "none", "raise"}

\* time that may pass between two calls
Deltas == {_HEARTBEAT_INTERVAL - 1, _HEARTBEAT_INTERVAL}

\* Python truthiness of an Optional[float]
Truthy(x) == x # None /\ x # 0

\* the instance fields as one record
WxFields == [wx |-> _wx, hb |-> _last_heartbeat, rc |-> _retry_count,
             cs |-> _connection_state, now |-> now]

\* lines 67-80: True iff FindWindow returned a handle; an exception gives False
_check_wx_window_exists(fw) == fw = "found"

\* The interval test is lost: every call performs the heartbeat.
_check_connection_nointerval(s, sess) ==
    IF s.wx = None THEN
        [s |-> s, ret |-> FALSE, getSession |-> 0]
    ELSE IF sess = "sessions" THEN
        [s |-> [s EXCEPT !.hb = s.now, !.cs = TRUE], ret |-> TRUE, getSession |-> 1]
    ELSE
        [s |-> [s EXCEPT !.cs = FALSE, !.wx = None], ret |-> FALSE, getSession |-> 1]

\* lines 163-191
_check_connection(s, sess) ==
    IF s.wx = None THEN
        [s |-> s, ret |-> FALSE, getSession |-> 0]
    ELSE IF Truthy(s.hb) /\ (s.now - s.hb < _HEARTBEAT_INTERVAL) THEN
        [s |-> s, ret |-> s.cs, getSession |-> 0]
    ELSE IF sess = "sessions" THEN
        [s |-> [s EXCEPT !.hb = s.now, !.cs = TRUE], ret |-> TRUE, getSession |-> 1]
    ELSE
        [s |-> [s EXCEPT !.cs = FALSE, !.wx = None], ret |-> FALSE, getSession |-> 1]

\* lines 193-209
_cleanup_instance(s) ==
    IF s.wx = None THEN s
    ELSE [s EXCEPT !.wx = None, !.cs = FALSE, !.hb = None]

\* The retry test uses > : one more attempt is made at the maximum.
_create_instance_gt(s, fw, wc, newId) ==
    IF s.rc > _MAX_RETRY_COUNT THEN
        [s |-> s, ret |-> None, findWindow |-> 0, weChat |-> 0]
    ELSE
        LET s1 == [s EXCEPT !.now = IF s.rc > 0 THEN s.now + 2 * s.rc ELSE s.now]
            failed == [s1 EXCEPT !.rc = s1.rc + 1, !.cs = FALSE, !.wx = None]
        IN  IF ~_check_wx_window_exists(fw) THEN
                [s |-> [s1 EXCEPT !.rc = s1.rc + 1, !.cs = FALSE],
                 ret |-> None, findWindow |-> 1, weChat |-> 0]
            ELSE IF wc # "ok" THEN
                [s |-> failed, ret |-> None, findWindow |-> 1, weChat |-> 1]
            ELSE
                [s |-> [s1 EXCEPT !.wx = newId, !.hb = s1.now, !.cs = TRUE, !.rc = 0],
                 ret |-> newId, findWindow |-> 1, weChat |-> 1]

\* lines 96-161
_create_instance(s, fw, wc, newId) ==
    IF s.rc >= _MAX_RETRY_COUNT THEN
        \* lines 101-104: give up without touching WeChat
        [s |-> s, ret |-> None, findWindow |-> 0, weChat |-> 0]
    ELSE
        LET \* lines 107-110: time.sleep(2 * retry_count)
            s1 == [s EXCEPT !.now = IF s.rc > 0 THEN s.now + 2 * s.rc ELSE s.now]
            \* lines 125-137 (WeChat() raised) and 141-147 (no nickname)
            failed == [s1 EXCEPT !.rc = s1.rc + 1, !.cs = FALSE, !.wx = None]
        IN  IF ~_check_wx_window_exists(fw) THEN
                \* lines 114-117
                [s |-> [s1 EXCEPT !.rc = s1.rc + 1, !.cs = FALSE],
                 ret |-> None, findWindow |-> 1, weChat |-> 0]
            ELSE IF wc # "ok" THEN
                [s |-> failed, ret |-> None, findWindow |-> 1, weChat |-> 1]
            ELSE
                \* lines 153-161
                [s |-> [s1 EXCEPT !.wx = newId, !.hb = s1.now, !.cs = TRUE, !.rc = 0],
                 ret |-> newId, findWindow |-> 1, weChat |-> 1]

\* lines 82-94; the result also records what the call did: the fields before
\* the call (pre), after _check_connection and _cleanup_instance (mid) and at
\* return (post), the library answers it consumed and the library calls made
get_wx_instance(s, fw, wc, sess, newId) ==
    LET chk == _check_connection(s, sess)
        create(mid) ==
            LET c == _create_instance(mid, fw, wc, newId)
            IN  [pre |-> s, mid |-> mid, post |-> c.s, ret |-> c.ret,
                 fw |-> IF c.findWindow = 1 THEN fw ELSE "unused",
                 wc |-> IF c.weChat = 1 THEN wc ELSE "unused",
                 sess |-> IF chk.getSession = 1 THEN sess ELSE "unused",
                 checked |-> s.wx # None, checkRet |-> chk.ret,
                 getSession |-> chk.getSession, created |-> TRUE,
                 findWindow |-> c.findWindow, weChat |-> c.weChat]
    IN  IF s.wx # None THEN
            IF chk.ret THEN
                [pre |-> s, mid |-> chk.s, post |-> chk.s, ret |-> chk.s.wx,
                 fw |-> "unused", wc |-> "unused",
                 sess |-> IF chk.getSession = 1 THEN sess ELSE "unused",
                 checked |-> TRUE, checkRet |-> TRUE,
                 getSession |-> chk.getSession, created |-> FALSE,
                 findWindow |-> 0, weChat |-> 0]
            ELSE create(_cleanup_instance(chk.s))
        ELSE create(s)

NoCall == [pre |-> WxFields, mid |-> WxFields, post |-> WxFields, ret |-> None,
           fw |-> "unused", wc |-> "unused", sess |-> "unused",
           checked |-> FALSE, checkRet |-> FALSE, getSession |-> 0,
           created |-> FALSE, findWindow |-> 0, weChat |-> 0]

WxFrame == UNCHANGED <<newVars, grpVars, sumVars, dlVars, czVars, msgVars, loadVars>>

WxInit ==
    /\ _wx = None
    /\ _last_heartbeat = None
    /\ _retry_count = 0
    /\ _connection_state = FALSE
    /\ now = StartTime
    /\ nWeChat = 0
    /\ wxcall = [NoCall EXCEPT !.pre.now = StartTime, !.mid.now = StartTime,
                               !.post.now = StartTime]

\* any caller (get_group_list, get_group_messages, check_connection, ...)
GetWxInstance ==
    \E fw \in FindWindowOutcomes, wc \in WeChatOutcomes, sess \in GetSessionOutcomes :
        LET r == get_wx_instance(WxFields, fw, wc, sess, nWeChat + 1)
        IN  /\ r.post.now <= MaxNow
            /\ _wx' = r.post.wx
            /\ _last_heartbeat' = r.post.hb
            /\ _retry_count' = r.post.rc
            /\ _connection_state' = r.post.cs
            /\ now' = r.post.now
            /\ nWeChat' = IF r.ret # None /\ r.created THEN nWeChat + 1 ELSE nWeChat
            /\ wxcall' = r
            /\ WxFrame

\* time passes between calls
Tick ==
    \E d \in Deltas :
        /\ now + d <= MaxNow
        /\ now' = now + d
        /\ UNCHANGED <<_wx, _last_heartbeat, _retry_count, _connection_state, nWeChat, wxcall>>
        /\ WxFrame

WxNext == GetWxInstance \/ Tick


(***************************************************************************)
(* goodqunbot database.py: insert_group, insert_group_members, and their   *)
(* callers refresh_groups and refresh_group_members (main.py).  Each       *)
(* database function opens its own connection and commits once, so its     *)
(* writes become visible together; a call that raises commits nothing.     *)
(***************************************************************************)
GroupNames == {"g1", "g2"}
MemberCounts == {0, 7}
MemberNames == {"a", "b"}
MaxBatch == 2
MaxMembers == 3

SeqsUpTo(S, n) == UNION {[1..k -> S] : k \in 0..n}

\* what wx_manager.get_group_list() can return: dicts {name, member_count}
GroupLists == SeqsUpTo([name : GroupNames, member_count : MemberCounts], MaxBatch)

\* what wx_manager.get_group_members() can return
MemberLists == SeqsUpTo(MemberNames, MaxMembers)

MaxOf(S) == IF S = {} THEN 0 ELSE CHOOSE x \in S : \A y \in S : y <= x

\* id INTEGER PRIMARY KEY AUTOINCREMENT (database.py line 60)
NextGroupId(g) == MaxOf({r.id : r \in g}) + 1

\* INSERT OR REPLACE instead of INSERT + UPDATE: the row gets a new id.
insert_group_replace(g, name, member_count) ==
    LET id == NextGroupId(g)
    IN  [groups |-> {r \in g : r.name # name}
                      \cup {[id |-> id, name |-> name, member_count |-> member_count]},
         ret |-> id]

\* database.py lines 132-153
insert_group(g, name, member_count) ==
    IF \E r \in g : r.name = name THEN
        \* name TEXT NOT NULL UNIQUE: IntegrityError, lines 143-153
        [groups |-> {IF r.name = name THEN [r EXCEPT !.member_count = member_count]
                                      ELSE r : r \in g},
         ret |-> (CHOOSE r \in g : r.name = name).id]
    ELSE
        \* lines 136-142
        LET id == NextGroupId(g)
        IN  [groups |-> g \cup {[id |-> id, name |-> name, member_count |-> member_count]},
             ret |-> id]

\* main.py lines 106-113: the loop over the list returned by WeChat
RECURSIVE refresh_groups_loop(_, _, _, _)
refresh_groups_loop(g, list, i, ids) ==
    IF i > Len(list) THEN [groups |-> g, ids |-> ids]
    ELSE LET r == insert_group(g, list[i].name, list[i].member_count)
         IN  refresh_groups_loop(r.groups, list, i + 1, Append(ids, r.ret))

\* database.py lines 268-274: keep the first occurrence of every name
RECURSIVE unique_members(_, _, _, _)
unique_members(member_names, i, seen, acc) ==
    IF i > Len(member_names) THEN acc
    ELSE IF member_names[i] \in seen
         THEN unique_members(member_names, i + 1, seen, acc)
         ELSE unique_members(member_names, i + 1, seen \cup {member_names[i]},
                             Append(acc, member_names[i]))

\* DELETE without its WHERE clause: the members of every group are removed.
insert_group_members_deleteall(g, gm, group_id, member_names) ==
    LET u == unique_members(member_names, 1, {}, <<>>)
        inserted == {[group_id |-> group_id, member_name |-> u[k], member_order |-> k]
                       : k \in 1..Len(u)}
    IN  [groups |-> {IF r.id = group_id THEN [r EXCEPT !.member_count = Len(u)] ELSE r
                       : r \in g},
         group_members |-> inserted,
         ret |-> Len(u)]

\* database.py lines 266-304
insert_group_members(g, gm, group_id, member_names) ==
    LET u == unique_members(member_names, 1, {}, <<>>)
        \* line 284: DELETE FROM group_members WHERE group_id = ?
        kept == {m \in gm : m.group_id # group_id}
        \* lines 288-293: enumerate(unique_members, start=1)
        inserted == {[group_id |-> group_id, member_name |-> u[k], member_order |-> k]
                       : k \in 1..Len(u)}
    IN  \* lines 297-304: UPDATE groups SET member_count = insert_count; commit
        [groups |-> {IF r.id = group_id THEN [r EXCEPT !.member_count = Len(u)] ELSE r
                       : r \in g},
         group_members |-> kept \cup inserted,
         ret |-> Len(u)]

GrpFrame == UNCHANGED <<newVars, wxVars, sumVars, dlVars, czVars, msgVars, loadVars>>

GrpInit ==
    /\ groups = {}
    /\ group_members = {}
    /\ group_ids = <<>>
    /\ member_ret = 0

\* POST /api/groups/refresh with WeChat returning `list` (main.py lines 92-124)
RefreshGroups(list) ==
    /\ list # <<>>
    /\ LET r == refresh_groups_loop(groups, list, 1, <<>>)
       IN  /\ groups' = r.groups
           /\ group_ids' = r.ids
    /\ UNCHANGED <<group_members, member_ret>>
    /\ GrpFrame

\* POST /api/groups/{group_id}/members/refresh with WeChat returning
\* `member_names` (main.py lines 276-318); 404 for an unknown group and 500
\* for an empty list change nothing
RefreshGroupMembers(group_id, member_names) ==
    /\ \E r \in groups : r.id = group_id
    /\ member_names # <<>>
    /\ LET r == insert_group_members(groups, group_members, group_id, member_names)
       IN  /\ groups' = r.groups
           /\ group_members' = r.group_members
           /\ member_ret' = r.ret
    /\ UNCHANGED group_ids
    /\ GrpFrame

\* ids a group row can have: one per name, never reused
GroupIds == 1..Cardinality(GroupNames)

GrpNext ==
    \/ \E list \in GroupLists : RefreshGroups(list)
    \/ \E group_id \in GroupIds, member_names \in MemberLists :
           RefreshGroupMembers(group_id, member_names)

(***************************************************************************)
(* goodqunbot main.py create_summary (POST /api/summaries) with            *)
(* database.py create_summary, update_summary_status, insert_message.      *)
(* The handler is a coroutine: other requests run at every await, so each  *)
(* database call is one step.  A database call can raise (the handler      *)
(* wraps them in try/except Exception); whether it does is an input.       *)
(***************************************************************************)
NumRequests == 2
MaxMsgs == 2
Requests == 1..NumRequests

\* messages as returned by load_messages_by_date_range
Msgs == [sender : {"u1"}, content : {"x", "y"}, msg_time : {"10:00"}]
MsgLists == SeqsUpTo(Msgs, MaxMsgs)

\* main.py lines 401-403: md5 of "sender_content_msg_time"; distinct triples
\* give distinct digests
msg_hash_of(m) == <<m.sender, "_", m.content, "_", m.msg_time>>

\* the group list WeChat returns in this subsystem: one of the groups
SumGroupLists == {<<[name |-> "g1", member_count |-> 0]>>}

\* database.py lines 168-174
get_group_by_name(g, name) ==
    IF \E r \in g : r.name = name THEN (CHOOSE r \in g : r.name = name).id ELSE None

\* id INTEGER PRIMARY KEY AUTOINCREMENT (database.py lines 71 and 89)
NextRowId(tbl) == MaxOf({r.id : r \in tbl}) + 1

\* database.py lines 177-186: the new row has status 'pending'
db_create_summary(tbl, group_id) ==
    LET id == NextRowId(tbl)
    IN  [summaries |-> tbl \cup {[id |-> id, group_id |-> group_id,
                                  status |-> "pending", message_count |-> 0]},
         ret |-> id]

\* database.py lines 210-224 (message_count is written only with a content)
update_summary_status(tbl, summary_id, status, message_count) ==
    {IF r.id = summary_id
        THEN [r EXCEPT !.status = status,
                       !.message_count = IF message_count = None THEN @ ELSE message_count]
        ELSE r : r \in tbl}

\* The duplicate test is skipped.
insert_message_existing_never(tbl, msg_hash, summary_id) == FALSE

\* database.py lines 231-239: the SELECT that finds a duplicate
insert_message_existing(tbl, msg_hash, summary_id) ==
    /\ summary_id # None
    /\ \E m \in tbl : m.msg_hash = msg_hash /\ m.summary_id = summary_id

\* database.py lines 243-248: the INSERT
insert_message_row(tbl, group_id, msg_hash, summary_id) ==
    tbl \cup {[id |-> NextRowId(tbl), group_id |-> group_id,
               summary_id |-> summary_id, msg_hash |-> msg_hash]}

IdleRequest == [pc |-> "idle", group_id |-> None, summary_id |-> None,
                msgs |-> <<>>, idx |-> 0, saved_count |-> 0, resp |-> 0]

SumFrame == UNCHANGED <<newVars, wxVars, dlVars, czVars, msgVars, loadVars>>

SumInit ==
    /\ summaries = {}
    /\ messages = {}
    /\ sreq = [r \in Requests |-> IdleRequest]

\* the request ends with HTTP status `code`; its locals are gone, the id of
\* the row it created is kept for reference
Finish(r, code) ==
    [sreq EXCEPT ![r] = [IdleRequest EXCEPT !.pc = "done", !.resp = code,
                                            !.summary_id = sreq[r].summary_id]]

\* main.py lines 332-336: 404 when the group is unknown; requests are
\* numbered in their order of arrival
SumPost(r, group_name) ==
    /\ sreq[r].pc = "idle"
    /\ \A q \in Requests : q < r => sreq[q].pc # "idle"
    /\ LET gid == get_group_by_name(groups, group_name)
       IN  sreq' = IF gid = None THEN Finish(r, 404)
                   ELSE [sreq EXCEPT ![r].pc = "create", ![r].group_id = gid]
    /\ UNCHANGED <<summaries, messages, grpVars>>
    /\ SumFrame

\* main.py lines 339-346
SumCreate(r, ok) ==
    /\ sreq[r].pc = "create"
    /\ IF ok
       THEN LET c == db_create_summary(summaries, sreq[r].group_id)
            IN  /\ summaries' = c.summaries
                /\ sreq' = [sreq EXCEPT ![r].pc = "mark", ![r].summary_id = c.ret]
       ELSE \* lines 566-581: the outer handler answers 500
            /\ sreq' = Finish(r, 500)
            /\ UNCHANGED summaries
    /\ UNCHANGED <<messages, grpVars>>
    /\ SumFrame

\* main.py line 351, outside the inner try
SumMark(r, ok) ==
    /\ sreq[r].pc = "mark"
    /\ IF ok
       THEN /\ summaries' = update_summary_status(summaries, sreq[r].summary_id,
                                                  "processing", None)
            /\ sreq' = [sreq EXCEPT ![r].pc = "load"]
       ELSE \* lines 566-581: the outer handler answers 500
            /\ sreq' = Finish(r, 500)
            /\ UNCHANGED summaries
    /\ UNCHANGED <<messages, grpVars>>
    /\ SumFrame

\* main.py lines 353-371: load from WeChat, read the environment
SumLoad(r, msgs, raises) ==
    /\ sreq[r].pc = "load"
    /\ sreq' = IF raises THEN [sreq EXCEPT ![r].pc = "except"]
               ELSE IF msgs = <<>> THEN [sreq EXCEPT ![r].pc = "complete"]
               ELSE [sreq EXCEPT ![r].pc = "check", ![r].msgs = msgs, ![r].idx = 1]
    /\ UNCHANGED <<summaries, messages, grpVars>>
    /\ SumFrame

\* one iteration of the loop at lines 398-438 ends
NextMessage(r, saved) ==
    [sreq EXCEPT ![r].idx = @ + 1,
                 ![r].saved_count = @ + saved,
                 ![r].pc = IF sreq[r].idx + 1 > Len(sreq[r].msgs)
                           THEN "complete" ELSE "check"]

\* insert_message, first await: database.py lines 231-239
SumInsertCheck(r) ==
    /\ sreq[r].pc = "check"
    /\ sreq' = IF insert_message_existing(messages,
                                          msg_hash_of(sreq[r].msgs[sreq[r].idx]),
                                          sreq[r].summary_id)
               THEN NextMessage(r, 0)
               ELSE [sreq EXCEPT ![r].pc = "write"]
    /\ UNCHANGED <<summaries, messages, grpVars>>
    /\ SumFrame

\* insert_message, second await: database.py lines 242-251
SumInsertWrite(r, ok) ==
    /\ sreq[r].pc = "write"
    /\ IF ok
       THEN /\ messages' = insert_message_row(messages, sreq[r].group_id,
                                              msg_hash_of(sreq[r].msgs[sreq[r].idx]),
                                              sreq[r].summary_id)
            /\ sreq' = NextMessage(r, 1)
       ELSE \* lines 249-251: the exception is swallowed, None is returned
            /\ UNCHANGED messages
            /\ sreq' = NextMessage(r, 0)
    /\ UNCHANGED <<summaries, grpVars>>
    /\ SumFrame

\* main.py lines 377-390 and 535-548
SumComplete(r, ok) ==
    /\ sreq[r].pc = "complete"
    /\ IF ok
       THEN /\ summaries' = update_summary_status(summaries, sreq[r].summary_id,
                                                  "completed", Len(sreq[r].msgs))
            /\ sreq' = Finish(r, 200)
       ELSE /\ sreq' = [sreq EXCEPT ![r].pc = "except"]
            /\ UNCHANGED summaries
    /\ UNCHANGED <<messages, grpVars>>
    /\ SumFrame

\* main.py lines 550-562, then lines 566-581: always answers 500
SumExcept(r, ok) ==
    /\ sreq[r].pc = "except"
    /\ summaries' = IF ok THEN update_summary_status(summaries, sreq[r].summary_id,
                                                     "failed", None)
                    ELSE summaries
    /\ sreq' = Finish(r, 500)
    /\ UNCHANGED <<messages, grpVars>>
    /\ SumFrame

SumNext ==
    \/ \E list \in SumGroupLists : RefreshGroups(list)
    \/ \E r \in Requests :
          \/ \E group_name \in GroupNames : SumPost(r, group_name)
          \/ \E ok \in BOOLEAN : SumCreate(r, ok)
          \/ \E ok \in BOOLEAN : SumMark(r, ok)
          \/ \E msgs \in MsgLists, raises \in BOOLEAN : SumLoad(r, msgs, raises)
          \/ SumInsertCheck(r)
          \/ \E ok \in BOOLEAN : SumInsertWrite(r, ok)
          \/ \E ok \in BOOLEAN : SumComplete(r, ok)
          \/ \E ok \in BOOLEAN : SumExcept(r, ok)

(***************************************************************************)
(* gooddowner main.py: start_download, download_video_task, progress_hook, *)
(* delete_task.  download_video_task is a plain function, so FastAPI runs  *)
(* it in a worker thread after the response: its statements interleave     *)
(* with the handlers.  What yt-dlp does (extract_info, the progress        *)
(* callbacks, download returning or raising) is an input.                  *)
(***************************************************************************)
NumTasks == 2
TaskIds == 1..NumTasks

\* Python None in a field that otherwise holds a string; also a key the
\* dict does not have yet ('finished_at' is first written at line 203)
NoneStr == "None"

\* main.py lines 228-244, the fields the worker and the callback write
\* (title, duration, speed, eta and the sizes are display values)
NewTask == [status |-> "pending", progress |-> "0%",
            error |-> NoneStr, finished_at |-> NoneStr]

\* d passed to the callback: the task id found in d['info_dict'] (None when
\* the key is missing), d['status'] and d['_percent_str']
HookEvents == [task_id : TaskIds \cup {None},
               status : {"downloading", "finished", "error"},
               percent : {"50%"}]

SetField(tasks, task_id, f, v) == [tasks EXCEPT ![task_id] = [@ EXCEPT ![f] = v]]

\* 'finished' is taken for the end of the task.
progress_hook_completed(tasks, d) ==
    IF d.task_id # None /\ d.task_id \in DOMAIN tasks THEN
        IF d.status = "downloading" THEN
            [tasks EXCEPT ![d.task_id] =
                [@ EXCEPT !.status = "downloading", !.progress = d.percent]]
        ELSE IF d.status = "finished" THEN
            [tasks EXCEPT ![d.task_id] =
                [@ EXCEPT !.status = "completed", !.progress = "100%"]]
        ELSE tasks
    ELSE tasks

\* main.py lines 108-127
progress_hook(tasks, d) ==
    IF d.task_id # None /\ d.task_id \in DOMAIN tasks THEN
        IF d.status = "downloading" THEN
            [tasks EXCEPT ![d.task_id] =
                [@ EXCEPT !.status = "downloading", !.progress = d.percent]]
        ELSE IF d.status = "finished" THEN
            [tasks EXCEPT ![d.task_id] =
                [@ EXCEPT !.status = "processing", !.progress = "100%"]]
        ELSE tasks
    ELSE tasks

DlFrame == UNCHANGED <<newVars, wxVars, grpVars, sumVars, czVars, msgVars, loadVars>>

DlInit ==
    /\ download_tasks = <<>>
    /\ wpc = [t \in TaskIds |-> "none"]

\* POST /api/download (lines 222-255): the record is stored, the worker is
\* queued, {status: 'queued'} is returned; task ids are fresh uuid4 values
StartDownload(task_id) ==
    /\ wpc[task_id] = "none"
    /\ \A t \in TaskIds : t < task_id => wpc[t] # "none"
    /\ download_tasks' = [t \in DOMAIN download_tasks \cup {task_id} |->
                             IF t = task_id THEN NewTask ELSE download_tasks[t]]
    /\ wpc' = [wpc EXCEPT ![task_id] = "queued"]
    /\ DlFrame

\* DELETE /api/tasks/{task_id} (lines 275-284); 404 changes nothing
DeleteTask(task_id) ==
    /\ task_id \in DOMAIN download_tasks
    /\ download_tasks' = [t \in DOMAIN download_tasks \ {task_id} |-> download_tasks[t]]
    /\ UNCHANGED wpc
    /\ DlFrame

\* A statement of the worker that writes download_tasks[task_id][f]: for a
\* deleted task it raises KeyError, and so does the handler at lines 205-207,
\* which ends the worker.
WorkerWrite(task_id, f, v, next) ==
    IF task_id \in DOMAIN download_tasks
    THEN /\ download_tasks' = SetField(download_tasks, task_id, f, v)
         /\ wpc' = [wpc EXCEPT ![task_id] = next]
    ELSE /\ wpc' = [wpc EXCEPT ![task_id] = "crashed"]
         /\ UNCHANGED download_tasks

\* lines 136-188: options, then status = 'downloading'
WorkerBegin(task_id) ==
    /\ wpc[task_id] = "queued"
    /\ WorkerWrite(task_id, "status", "downloading", "extract")
    /\ DlFrame

\* lines 190-196: extract_info returns the info (title and duration are
\* written into the record), returns nothing, or raises
WorkerExtract(task_id, outcome) ==
    /\ wpc[task_id] = "extract"
    /\ CASE outcome = "info" ->
              WorkerWrite(task_id, "status", download_tasks[task_id].status, "download")
         [] outcome = "none" -> /\ wpc' = [wpc EXCEPT ![task_id] = "download"]
                                /\ UNCHANGED download_tasks
         [] outcome = "raise" -> /\ wpc' = [wpc EXCEPT ![task_id] = "except"]
                                 /\ UNCHANGED download_tasks
    /\ DlFrame

\* line 199: ydl.download is running and calls progress_hook(d)
WorkerHook(task_id, d) ==
    /\ wpc[task_id] = "download"
    /\ d.task_id \in {task_id, None}
    /\ download_tasks' = progress_hook(download_tasks, d)
    /\ UNCHANGED wpc
    /\ DlFrame

\* line 199: ydl.download returns or raises
WorkerDownloadEnds(task_id, raises) ==
    /\ wpc[task_id] = "download"
    /\ wpc' = [wpc EXCEPT ![task_id] = IF raises THEN "except" ELSE "set_status"]
    /\ UNCHANGED download_tasks
    /\ DlFrame

\* line 201
WorkerSetCompleted(task_id) ==
    /\ wpc[task_id] = "set_status"
    /\ WorkerWrite(task_id, "status", "completed", "set_progress")
    /\ DlFrame

\* line 202
WorkerSetProgress(task_id) ==
    /\ wpc[task_id] = "set_progress"
    /\ WorkerWrite(task_id, "progress", "100%", "set_finished")
    /\ DlFrame

\* line 203
WorkerSetFinishedAt(task_id) ==
    /\ wpc[task_id] = "set_finished"
    /\ WorkerWrite(task_id, "finished_at", "iso", "end")
    /\ DlFrame

\* line 206
WorkerSetError(task_id) ==
    /\ wpc[task_id] = "except"
    /\ WorkerWrite(task_id, "status", "error", "set_error")
    /\ DlFrame

\* line 207
WorkerSetErrorText(task_id) ==
    /\ wpc[task_id] = "set_error"
    /\ WorkerWrite(task_id, "error", "str(e)", "end")
    /\ DlFrame

\* the statements of download_video_task(task_id); the callbacks are made by
\* yt-dlp while ydl.download runs
Worker(task_id) ==
    \/ WorkerBegin(task_id)
    \/ \E outcome \in {"info", "none", "raise"} : WorkerExtract(task_id, outcome)
    \/ \E raises \in BOOLEAN : WorkerDownloadEnds(task_id, raises)
    \/ WorkerSetCompleted(task_id)
    \/ WorkerSetProgress(task_id)
    \/ WorkerSetFinishedAt(task_id)
    \/ WorkerSetError(task_id)
    \/ WorkerSetErrorText(task_id)

DlNext ==
    \E task_id \in TaskIds :
        \/ StartDownload(task_id)
        \/ DeleteTask(task_id)
        \/ WorkerBegin(task_id)
        \/ \E outcome \in {"info", "none", "raise"} : WorkerExtract(task_id, outcome)
        \/ \E d \in HookEvents : WorkerHook(task_id, d)
        \/ \E raises \in BOOLEAN : WorkerDownloadEnds(task_id, raises)
        \/ WorkerSetCompleted(task_id)
        \/ WorkerSetProgress(task_id)
        \/ WorkerSetFinishedAt(task_id)
        \/ WorkerSetError(task_id)
        \/ WorkerSetErrorText(task_id)

(***************************************************************************)
(* coze2app_py main.py: the config file, POST /api/config/token,           *)
(* POST /api/auth/clear, POST /api/config/space_id and the seven routes    *)
(* that proxy to the Coze API.  The handlers are coroutines on one event   *)
(* loop and call the blocking requests library, so a handler runs          *)
(* undisturbed from one await to the next; the requests of different       *)
(* clients share nothing but the config file, so one request of each kind  *)
(* is followed at a time.  What the Coze API answers is an input.          *)
(***************************************************************************)
MaxTokenLen == 2
Whitespace == {" "}
Chars == Whitespace \cup {"a"}
Times == {1, 2}
SpaceInputs == {"", "s1"}

\* None where a string of Chars may stand
NoToken == <<"None">>

\* read_config() when the file is missing or unreadable (lines 34-42): {}
EmptyConfig == [access_token |-> NoToken, token_configured_at |-> None,
                space_id |-> NoneStr]

\* an answer of the Coze API to requests.get/post: a status code or an exception
UpstreamOutcomes ==
    {[raised |-> TRUE, status_code |-> 0]} \cup
    {[raised |-> FALSE, status_code |-> c] : c \in {200, 401, 403}}

NoUpstream == [raised |-> FALSE, status_code |-> 0]

\* str.strip()
RECURSIVE strip(_)
strip(s) ==
    IF s = <<>> THEN s
    ELSE IF Head(s) \in Whitespace THEN strip(Tail(s))
    ELSE IF s[Len(s)] \in Whitespace THEN strip(SubSeq(s, 1, Len(s) - 1))
    ELSE s

\* lines 52-54
get_access_token(cfg) == cfg.access_token

\* lines 63-65
get_space_id(cfg) == cfg.space_id

\* lines 44-50: write_text replaces the file; when it raises the file is as
\* before or cut short, and a file cut short reads as {}
WriteOutcomes == {"ok", "raise", "raise_truncated"}

write_config(cfg, data, wr) ==
    CASE wr = "ok" -> data
      [] wr = "raise" -> cfg
      [] wr = "raise_truncated" -> EmptyConfig

\* lines 56-61, the dict that is written
set_access_token(cfg, token, t) ==
    [cfg EXCEPT !.access_token = token, !.token_configured_at = t]

\* lines 67-71, the dict that is written
set_space_id(cfg, space_id) == [cfg EXCEPT !.space_id = space_id]

\* 403 is taken for a valid token.
verify_token_only401(up) == ~up.raised /\ up.status_code # 401

\* lines 80-93
verify_token(up) == ~up.raised /\ up.status_code \notin {401, 403}

\* the JSON body of POST /api/config/token
TokenBodies ==
    {[kind |-> k, token |-> <<>>] : k \in {"json_error", "no_key", "not_str"}} \cup
    {[kind |-> "str", token |-> tk] : tk \in SeqsUpTo(Chars, MaxTokenLen)}

\* lines 144-169 after the body has been read: the response status, the
\* config file afterwards and the answer verify_token got (if it was called)
config_token(cfg, body, up, t, wr) ==
    IF body.kind \in {"json_error", "not_str"}
    THEN [status |-> 500, config |-> cfg, up |-> NoUpstream]
    ELSE LET token == strip(body.token) IN
         IF token = <<>>
         THEN [status |-> 400, config |-> cfg, up |-> NoUpstream]
         ELSE IF ~verify_token(up)
         THEN [status |-> 401, config |-> cfg, up |-> up]
         ELSE IF wr = "ok"
         THEN [status |-> 200, up |-> up,
               config |-> write_config(cfg, set_access_token(cfg, token, t), wr)]
         ELSE [status |-> 500, up |-> up,
               config |-> write_config(cfg, set_access_token(cfg, token, t), wr)]

ProxyRoutes == {"get_workspaces", "get_bots", "get_workflows", "upload_file",
                "run_workflow", "chat_stream", "chat"}

\* the requests a client can make to a route: a multipart body with or
\* without the file part or a file name, a JSON body with or without the
\* required keys or no JSON at all
Shapes(route) ==
    CASE route = "upload_file" -> {"ok", "no_file", "no_filename"}
      [] route \in {"run_workflow", "chat_stream", "chat"} -> {"ok", "missing", "json_error"}
      [] OTHER -> {"ok"}

\* /api/bots answers for the missing space_id first.
proxy_entry_space_first(route, shape, cfg) ==
    IF route = "upload_file" /\ shape = "no_file" THEN 422
    ELSE IF route \in {"get_bots", "get_workflows"} /\ get_space_id(cfg) = NoneStr THEN 400
    ELSE IF get_access_token(cfg) \in {NoToken, <<>>} THEN 401
    ELSE IF route = "upload_file" /\ shape = "no_filename" THEN 400
    ELSE 0

\* A proxy route up to its first await or its upstream request: the status
\* it answers with, or 0 when it goes on.  upload_file declares
\* file: UploadFile = File(...) (line 303): a request without the file part
\* is answered 422 by FastAPI before the handler is entered.  Every handler
\* starts with the token test (lines 215-217, 238-240, 272-274, 305-307,
\* 332-334, 376-378, 457-459); get_bots and get_workflows then test the
\* space_id (242-244, 276-278), upload_file the file name (310-311).
proxy_entry(route, shape, cfg) ==
    IF route = "upload_file" /\ shape = "no_file" THEN 422
    ELSE IF get_access_token(cfg) \in {NoToken, <<>>} THEN 401
    ELSE IF route \in {"get_bots", "get_workflows"} /\ get_space_id(cfg) = NoneStr THEN 400
    ELSE IF route = "upload_file" /\ shape = "no_filename" THEN 400
    ELSE 0

\* the answer of a route after its upstream request (e.g. lines 225-233)
proxy_response(up) == IF up.raised THEN 500 ELSE up.status_code

IdleToken == [pc |-> "idle", body |-> [kind |-> "no_key", token |-> <<>>],
              status |-> 0, up |-> NoUpstream]

IdleProxy == [pc |-> "idle", route |-> "none", shape |-> "ok", access_token |-> NoToken,
              had_token |-> FALSE, resp |-> 0, sent |-> FALSE]

CzFrame == UNCHANGED <<newVars, wxVars, grpVars, sumVars, dlVars, msgVars, loadVars>>

CzInit ==
    /\ config_file = EmptyConfig
    /\ creq = IdleToken
    /\ preq = IdleProxy

\* POST /api/config/token arrives; the handler awaits request.json() (line 148)
ConfigTokenPost(body) ==
    /\ creq.pc \in {"idle", "done"}
    /\ creq' = [IdleToken EXCEPT !.pc = "body", !.body = body]
    /\ UNCHANGED <<config_file, preq>>
    /\ CzFrame

\* lines 149-169
ConfigToken(up, t, wr) ==
    /\ creq.pc = "body"
    /\ LET res == config_token(config_file, creq.body, up, t, wr) IN
        /\ config_file' = res.config
        /\ creq' = [creq EXCEPT !.pc = "done", !.status = res.status, !.up = res.up]
    /\ UNCHANGED preq
    /\ CzFrame

\* POST /api/auth/clear (lines 186-190, 73-76)
ClearToken ==
    /\ config_file' = EmptyConfig
    /\ UNCHANGED <<creq, preq>>
    /\ CzFrame

\* POST /api/config/space_id (lines 192-202) with a stripped string
\* space_id; an empty one is answered 400
ConfigSpaceId(space_id, wr) ==
    /\ config_file' = IF space_id = "" THEN config_file
                      ELSE write_config(config_file, set_space_id(config_file, space_id), wr)
    /\ UNCHANGED <<creq, preq>>
    /\ CzFrame

\* a request to a proxy route is dispatched and runs to its first await
ProxyEntry(route, shape, up) ==
    /\ preq.pc \in {"idle", "done"}
    /\ LET code == proxy_entry(route, shape, config_file)
           req == [IdleProxy EXCEPT !.route = route, !.shape = shape,
                       !.had_token = (config_file.access_token # NoToken)]
       IN  IF code # 0
           THEN preq' = [req EXCEPT !.pc = "done", !.resp = code]
           ELSE IF route \in {"run_workflow", "chat_stream", "chat"}
           THEN preq' = [req EXCEPT !.pc = "body",
                             !.access_token = get_access_token(config_file)]
           ELSE preq' = [req EXCEPT !.pc = "done", !.sent = TRUE,
                             !.resp = proxy_response(up)]
    /\ UNCHANGED <<config_file, creq>>
    /\ CzFrame

\* run_workflow, chat_stream and chat after await request.json()
\* (lines 337-371, 381-452, 462-543)
ProxyBody(up) ==
    /\ preq.pc = "body"
    /\ CASE preq.shape = "json_error" -> preq' = [preq EXCEPT !.pc = "done", !.resp = 500]
         [] preq.shape = "missing" -> preq' = [preq EXCEPT !.pc = "done", !.resp = 400]
         [] OTHER ->
              IF preq.route = "chat_stream"
              THEN preq' = [preq EXCEPT !.pc = "stream", !.resp = 200]
              ELSE preq' = [preq EXCEPT !.pc = "done", !.sent = TRUE,
                                !.resp = proxy_response(up)]
    /\ UNCHANGED <<config_file, creq>>
    /\ CzFrame

\* chat_stream: the StreamingResponse runs generate() (lines 426-446)
ProxyStream ==
    /\ preq.pc = "stream"
    /\ preq' = [preq EXCEPT !.pc = "done", !.sent = TRUE]
    /\ UNCHANGED <<config_file, creq>>
    /\ CzFrame

CzNext ==
    \/ \E body \in TokenBodies : ConfigTokenPost(body)
    \/ \E up \in UpstreamOutcomes, t \in Times, wr \in WriteOutcomes : ConfigToken(up, t, wr)
    \/ ClearToken
    \/ \E space_id \in SpaceInputs, wr \in WriteOutcomes : ConfigSpaceId(space_id, wr)
    \/ \E route \in ProxyRoutes : \E shape \in Shapes(route), up \in UpstreamOutcomes :
           ProxyEntry(route, shape, up)
    \/ \E up \in UpstreamOutcomes : ProxyBody(up)
    \/ ProxyStream

(***************************************************************************)
(* goodqunbot: GET /api/groups/{group_name}/messages (main.py              *)
(* get_group_messages) and WxManager.get_group_messages.  The chat that    *)
(* GetAllMessage returns and the outcome of the library calls are inputs;  *)
(* count is any integer, the route declares count: int = 100 and nothing   *)
(* else.                                                                   *)
(***************************************************************************)
MaxChat == 2
MaxCount == 3
Counts == (0 - MaxCount)..MaxCount

\* an attribute the message object does not have
NoAttr == "<no attribute>"

\* message objects of the library: sender may be missing or empty
RawMsgs == {[sender |-> "u", content |-> "x"],
            [sender |-> NoAttr, content |-> "y"],
            [sender |-> "", content |-> "z"]}
Chats == SeqsUpTo(RawMsgs, MaxChat)

\* what ChatWith / GetAllMessage do: raise, or return the chat
LibAnswers ==
    {[raised |-> TRUE, msgs |-> <<>>]} \cup {[raised |-> FALSE, msgs |-> c] : c \in Chats}

\* what FindWindow, WeChat() and GetSession answer when get_wx_instance asks
WxAnswers ==
    {[fw |-> "found", wc |-> "ok", sess |-> "sessions"],
     [fw |-> "missing", wc |-> "ok", sess |-> "sessions"],
     [fw |-> "found", wc |-> "Exception", sess |-> "none"]}

\* wx_manager.py lines 299-310: the dict built from a message object
message_dict(msg) ==
    [sender |-> IF msg.sender = NoAttr THEN "unknown" ELSE msg.sender,
     content |-> msg.content]

\* Python msgs[start:] for any integer start
SliceFrom(msgs, start) ==
    LET n == Len(msgs)
        lo == IF start < 0 THEN (IF start + n < 0 THEN 0 ELSE start + n)
              ELSE (IF start > n THEN n ELSE start)
    IN  SubSeq(msgs, lo + 1, n)

\* wx_manager.py line 295
target_msgs(msgs, count) ==
    IF Len(msgs) > count THEN SliceFrom(msgs, 0 - count) ELSE msgs

\* wx_manager.py lines 268-327 once get_wx_instance has returned wx
wx_get_group_messages(wx, lib, count) ==
    IF wx = None THEN <<>>
    ELSE IF lib.raised THEN <<>>
    ELSE IF lib.msgs = <<>> THEN <<>>
    ELSE LET t == target_msgs(lib.msgs, count)
         IN  [i \in 1..Len(t) |-> message_dict(t[i])]

\* main.py lines 161-176: MessageModel(sender: min_length=1) rejects an empty
\* sender, which ends the request in the handler of line 180
api_get_group_messages(group_id, message_list) ==
    IF \E i \in 1..Len(message_list) : message_list[i].sender = ""
    THEN [status |-> 500, messages |-> <<>>, total |-> 0]
    ELSE [status |-> 200, total |-> Len(message_list),
          messages |-> [i \in 1..Len(message_list) |->
                           [group_id |-> group_id, sender |-> message_list[i].sender,
                            content |-> message_list[i].content]]]

NoMessagesCall == [called |-> FALSE, count |-> 0, wx |-> None,
                   lib |-> [raised |-> FALSE, msgs |-> <<>>], ret |-> <<>>,
                   resp |-> [status |-> 0, messages |-> <<>>, total |-> 0]]

MsgFrame == UNCHANGED <<newVars, sumVars, dlVars, czVars, loadVars>>

MsgInit == gm_call = NoMessagesCall

\* GET /api/groups/{group_name}/messages?count=... (main.py lines 146-182)
GetGroupMessages(group_name, count, ans, lib) ==
    LET group_id == get_group_by_name(groups, group_name) IN
    IF group_id = None THEN
        \* lines 153-156: 404
        /\ gm_call' = [NoMessagesCall EXCEPT !.called = TRUE, !.count = count,
                                             !.resp.status = 404]
        /\ UNCHANGED <<wxVars, grpVars>>
        /\ MsgFrame
    ELSE
        LET r == get_wx_instance(WxFields, ans.fw, ans.wc, ans.sess, nWeChat + 1)
            ret == wx_get_group_messages(r.ret, lib, count)
        IN  /\ _wx' = r.post.wx
            /\ _last_heartbeat' = r.post.hb
            /\ _retry_count' = r.post.rc
            /\ _connection_state' = r.post.cs
            /\ now' = r.post.now
            /\ nWeChat' = IF r.ret # None /\ r.created THEN nWeChat + 1 ELSE nWeChat
            /\ wxcall' = r
            /\ gm_call' = [called |-> TRUE, count |-> count, wx |-> r.ret,
                           lib |-> IF r.ret # None THEN lib ELSE NoMessagesCall.lib,
                           ret |-> ret,
                           resp |-> api_get_group_messages(group_id, ret)]
            /\ UNCHANGED grpVars
            /\ MsgFrame

MsgNext ==
    \/ \E list \in SumGroupLists : RefreshGroups(list)
    \/ \E group_name \in GroupNames, count \in Counts, ans \in WxAnswers,
          lib \in LibAnswers :
           GetGroupMessages(group_name, count, ans, lib)

(***************************************************************************)
(* goodqunbot wx_manager.py load_messages_by_date_range, as called by      *)
(* create_summary (main.py line 357) with batch_load_freq from the request *)
(* (models.py line 54: ge=2, le=60) and the default max_iterations.  Each  *)
(* library call is a step; what it answers is an input.                    *)
(***************************************************************************)
max_iterations == 50
MinFreq == 2
MaxFreq == 3
MaxMarkers == 2
Freqs == MinFreq..MaxFreq

\* a time marker of the chat (a message with type 'sys' and sender 'SYS'):
\* parse_wechat_time cannot parse it, or gives a time before the cutoff, or a
\* time at or after it
MarkerKinds == {"unparsed", "before", "after"}

\* the markers of a chat, oldest first
MarkerLists ==
    {m \in SeqsUpTo(MarkerKinds, MaxMarkers) :
        \A i, j \in 1..Len(m) : (i < j /\ m[i] = "after") => m[j] # "before"}

\* what GetAllMessage does: raise, return nothing, or return messages
GetAllAnswers ==
    {[kind |-> "raise", markers |-> <<>>], [kind |-> "empty", markers |-> <<>>]}
    \cup {[kind |-> "msgs", markers |-> m] : m \in MarkerLists}

NoAnswer == [kind |-> "none", markers |-> <<>>]

\* what LoadMoreMessage does: more history was loaded, the top was reached,
\* or it raises
LoadMoreAnswers == {"more", "top", "raise"}

\* utils.py lines 179-205: the first marker that parses, or "none"
extract_earliest_time_from_messages(markers) ==
    IF \E i \in 1..Len(markers) : markers[i] # "unparsed"
    THEN markers[CHOOSE i \in 1..Len(markers) :
                    markers[i] # "unparsed" /\ \A j \in 1..(i - 1) : markers[j] = "unparsed"]
    ELSE "none"

\* The test of the last LoadMoreMessage result is left out.
round_ends_never_top(msgs, result) ==
    CASE msgs.kind = "empty" -> "break"
      [] extract_earliest_time_from_messages(msgs.markers) = "before" -> "break_all"
      [] OTHER -> "continue"

\* wx_manager.py lines 541-566: how a round ends after its GetAllMessage:
\* break, break with all_messages = msgs, or the next round
round_ends(msgs, result) ==
    CASE msgs.kind = "empty" -> "break"
      [] extract_earliest_time_from_messages(msgs.markers) = "before" -> "break_all"
      [] result = "top" -> "break_all"
      [] OTHER -> "continue"

IdleLoad == [pc |-> "idle", batch_load_freq |-> MinFreq, iteration |-> 0, i |-> 0,
             load_count |-> 0, result |-> "unset", all_messages |-> FALSE,
             last_all |-> NoAnswer, ret |-> "none"]

LoadFrame == UNCHANGED <<newVars, grpVars, sumVars, dlVars, czVars, msgVars>>

LoadInit == lm = IdleLoad

\* lines 496-517: get_wx_instance, the cutoff, ChatWith, the counters
LoadBegin(batch_load_freq, ans, chat_raises) ==
    /\ lm.pc = "idle"
    /\ LET r == get_wx_instance(WxFields, ans.fw, ans.wc, ans.sess, nWeChat + 1) IN
        /\ _wx' = r.post.wx
        /\ _last_heartbeat' = r.post.hb
        /\ _retry_count' = r.post.rc
        /\ _connection_state' = r.post.cs
        /\ now' = r.post.now
        /\ nWeChat' = IF r.ret # None /\ r.created THEN nWeChat + 1 ELSE nWeChat
        /\ wxcall' = r
        /\ lm' = IF r.ret = None \/ chat_raises
                 THEN [IdleLoad EXCEPT !.pc = "done", !.ret = "[]",
                                       !.batch_load_freq = batch_load_freq]
                 ELSE [IdleLoad EXCEPT !.pc = "while", !.batch_load_freq = batch_load_freq]
    /\ LoadFrame

\* lines 519-520: while iteration < max_iterations: iteration += 1
LoadWhile ==
    /\ lm.pc = "while"
    /\ lm' = IF lm.iteration < max_iterations
             THEN [lm EXCEPT !.iteration = @ + 1, !.i = 0, !.pc = "for"]
             ELSE [lm EXCEPT !.pc = "after"]
    /\ UNCHANGED wxVars
    /\ LoadFrame

\* lines 525-535: one pass of for i in range(batch_load_freq)
LoadMore(answer) ==
    /\ lm.pc = "for"
    /\ lm' = IF lm.i >= lm.batch_load_freq THEN [lm EXCEPT !.pc = "getall"]
             ELSE IF answer = "raise"
             THEN [lm EXCEPT !.load_count = @ + 1, !.i = @ + 1, !.pc = "done", !.ret = "[]"]
             ELSE [lm EXCEPT !.load_count = @ + 1, !.i = @ + 1, !.result = answer,
                             !.pc = IF answer = "top" THEN "getall" ELSE "for"]
    /\ UNCHANGED wxVars
    /\ LoadFrame

\* lines 537-566: GetAllMessage and the tests that end the round
LoadGetAll(msgs) ==
    /\ lm.pc = "getall"
    /\ lm' = IF msgs.kind = "raise"
             THEN [lm EXCEPT !.pc = "done", !.ret = "[]", !.last_all = msgs]
             ELSE LET e == round_ends(msgs, lm.result) IN
                  [lm EXCEPT !.last_all = msgs,
                             !.all_messages = IF e = "break_all" THEN TRUE ELSE @,
                             !.pc = IF e = "continue" THEN "while" ELSE "after"]
    /\ UNCHANGED wxVars
    /\ LoadFrame

\* lines 567-596: the last GetAllMessage when max_iterations was reached,
\* the filter and the return
LoadAfter(msgs) ==
    /\ lm.pc = "after"
    /\ lm' = IF lm.iteration >= max_iterations
             THEN IF msgs.kind = "raise"
                  THEN [lm EXCEPT !.pc = "done", !.ret = "[]"]
                  ELSE [lm EXCEPT !.pc = "done", !.ret = "filtered",
                                  !.all_messages = IF msgs.kind = "msgs" THEN TRUE ELSE @]
             ELSE [lm EXCEPT !.pc = "done", !.ret = "filtered"]
    /\ UNCHANGED wxVars
    /\ LoadFrame

LoadNext ==
    \/ \E batch_load_freq \in Freqs, ans \in WxAnswers, chat_raises \in BOOLEAN :
           LoadBegin(batch_load_freq, ans, chat_raises)
    \/ LoadWhile
    \/ \E answer \in LoadMoreAnswers : LoadMore(answer)
    \/ \E msgs \in GetAllAnswers : LoadGetAll(msgs)
    \/ \E msgs \in GetAllAnswers : LoadAfter(msgs)

Init ==
    /\ NewInit
    /\ WxInit
    /\ GrpInit
    /\ SumInit
    /\ DlInit
    /\ CzInit
    /\ MsgInit
    /\ LoadInit

SpecNew == Init /\ [][NewNext]_vars

SpecWx == Init /\ [][WxNext]_vars

SpecGroups == Init /\ [][GrpNext]_vars

SpecSummary == Init /\ [][SumNext]_vars

SpecDownload == Init /\ [][DlNext]_vars

SpecCoze == Init /\ [][CzNext]_vars

SpecMessages == Init /\ [][MsgNext]_vars

SpecLoad == Init /\ [][LoadNext]_vars

\* the call runs on, and every library call it makes returns or raises
FairSpecLoad == SpecLoad /\ WF_vars(LoadNext)

\* The thread pool runs a queued worker and every statement of it, and
\* ydl.download returns or raises, however many callbacks it makes.
FairSpecDownload == SpecDownload /\ \A task_id \in TaskIds : WF_vars(Worker(task_id))

Returned == UNION {{nret[t][i] : i \in 1..Len(nret[t])} : t \in Threads}

\* C1: for any interleaving of threads calling WxManager(), every call
\* returns the same object, which is never None, and at most one instance is
\* ever constructed (exactly one as soon as any call has returned).
C1_Singleton ==
    /\ constructed <= 1
    /\ Cardinality(Returned) <= 1
    /\ None \notin Returned
    /\ Returned # {} => (constructed = 1 /\ Returned = {_instance})

\* Two threads raced through the first test: one holds the lock with the
\* instance constructed, the other waits for the lock, and a third call has
\* already returned.
C1_Witness ==
    /\ constructed = 1
    /\ Returned # {}
    /\ \E t1, t2 \in Threads :
          /\ t1 # t2
          /\ npc[t1] = "release" /\ _lock = t1
          /\ npc[t2] = "acquire"

\* C2: _retry_count stays within 0.._MAX_RETRY_COUNT; a get_wx_instance call
\* whose creation attempt failed (window missing or FindWindow raising,
\* WeChat() raising, instance without nickname) leaves it one higher, only a
\* successful creation resets it to 0, any other call leaves it alone; and a
\* call made with _retry_count = 3 returns None, calls neither FindWindow nor
\* WeChat() (nor GetSession) and leaves the count at 3.
C2_RetryBound ==
    LET c == wxcall
        failedAttempt == c.findWindow = 1 /\ (c.fw # "found" \/ c.wc # "ok")
        success == c.findWindow = 1 /\ c.fw = "found" /\ c.wc = "ok"
    IN  /\ _retry_count \in 0.._MAX_RETRY_COUNT
        /\ failedAttempt => (_retry_count = c.pre.rc + 1 /\ c.ret = None)
        /\ success => (_retry_count = 0 /\ c.ret = _wx /\ _wx # None)
        /\ (~failedAttempt /\ ~success) => _retry_count = c.pre.rc
        /\ (_retry_count = 0 /\ c.pre.rc # 0) => success
        /\ c.pre.rc = _MAX_RETRY_COUNT =>
              /\ c.ret = None
              /\ c.findWindow = 0 /\ c.weChat = 0 /\ c.getSession = 0
              /\ _retry_count = _MAX_RETRY_COUNT

\* A call was made with the count already at 3, after an earlier success had
\* reset the count.
C2_Witness ==
    /\ wxcall.pre.rc = _MAX_RETRY_COUNT
    /\ _retry_count = _MAX_RETRY_COUNT
    /\ nWeChat >= 1
    /\ now > wxcall.post.now

\* C3: for a get_wx_instance call made while an instance exists: GetSession
\* is called only if no heartbeat is recorded or at least _HEARTBEAT_INTERVAL
\* seconds have passed since _last_heartbeat; inside the interval the cached
\* state is returned and WeChat is not touched; a successful heartbeat records
\* the time of the check and state True and the instance is returned; a
\* heartbeat that returns None or raises sets the state False, drops the
\* instance, and the same call attempts a fresh creation.
C3_Heartbeat ==
    LET c == wxcall
        due == c.pre.hb = None \/ c.pre.now - c.pre.hb >= _HEARTBEAT_INTERVAL
    IN  c.checked =>
          /\ c.getSession = 1 => due
          /\ ~due =>
                /\ c.getSession = 0 /\ c.findWindow = 0 /\ c.weChat = 0
                /\ c.checkRet = c.pre.cs
                /\ c.post = c.pre
          /\ c.sess = "sessions" =>
                /\ c.post.hb = c.pre.now /\ c.post.cs = TRUE
                /\ c.ret = c.pre.wx /\ ~c.created
          /\ c.sess \in {"none", "raise"} =>
                /\ c.mid.cs = FALSE /\ c.mid.wx = None
                /\ c.created /\ c.findWindow = 1

\* A heartbeat failed and the same call created a new instance.
C3_Witness ==
    /\ wxcall.checked
    /\ wxcall.sess = "raise"
    /\ wxcall.created
    /\ wxcall.ret # None /\ wxcall.ret # wxcall.pre.wx

\* A call inside the heartbeat interval answered from the cache.
C3_WitnessCached ==
    /\ wxcall.checked
    /\ wxcall.pre.now - wxcall.pre.hb = _HEARTBEAT_INTERVAL - 1
    /\ wxcall.getSession = 0
    /\ wxcall.ret = wxcall.pre.wx

MembersOf(gm, group_id) == {m \in gm : m.group_id = group_id}

FirstIdx(names, x) ==
    CHOOSE i \in 1..Len(names) : names[i] = x /\ \A j \in 1..(i - 1) : names[j] # x

C9_Post(group_id, names) ==
    LET D == {names[i] : i \in 1..Len(names)}
        n == Cardinality(D)
        mine == MembersOf(group_members', group_id)
    IN  /\ {m.member_name : m \in mine} = D
        /\ Cardinality(mine) = n
        /\ {m.member_order : m \in mine} = 1..n
        /\ \A m1, m2 \in mine :
              (m1.member_order < m2.member_order)
                <=> (FirstIdx(names, m1.member_name) < FirstIdx(names, m2.member_name))
        /\ member_ret' = n
        /\ \A r \in groups' : r.id = group_id => r.member_count = n
        /\ \E r \in groups' : r.id = group_id
        /\ \A h \in GroupIds \ {group_id} :
              MembersOf(group_members', h) = MembersOf(group_members, h)

\* C9: every insert_group_members(g, names) step leaves as the members of g
\* exactly the distinct names of the list, ordered by first occurrence with
\* member_order 1..n, sets groups.member_count of g to n, returns n, and
\* leaves the members of every other group as they were.
C9_Overwrite ==
    [][\A group_id \in GroupIds, names \in MemberLists :
          RefreshGroupMembers(group_id, names) => C9_Post(group_id, names)]_vars

\* Group 1 was overwritten with a list holding a duplicate whose first
\* occurrences are b then a, while group 2 keeps its own members.
C9_Witness ==
    /\ MembersOf(group_members, 1) =
          {[group_id |-> 1, member_name |-> "b", member_order |-> 1],
           [group_id |-> 1, member_name |-> "a", member_order |-> 2]}
    /\ MembersOf(group_members, 2) =
          {[group_id |-> 2, member_name |-> "a", member_order |-> 1]}
    /\ member_ret = 2
    /\ \E r \in groups : r.id = 1 /\ r.member_count = 2

LastIdx(list, nm) ==
    CHOOSE i \in 1..Len(list) :
        list[i].name = nm /\ \A j \in (i + 1)..Len(list) : list[j].name # nm

C10_Post(list) ==
    /\ Len(group_ids') = Len(list)
    /\ \A i \in 1..Len(list) :
          LET rows == {r \in groups' : r.name = list[i].name}
          IN  /\ Cardinality(rows) = 1
              /\ \A r \in rows :
                    /\ r.member_count = list[LastIdx(list, list[i].name)].member_count
                    /\ group_ids'[i] = r.id

\* C10: the groups table never holds two rows with one name; a row keeps its
\* id and name for ever; and after the insert_group calls of a refresh there
\* is exactly one row for each name passed, its member_count is that of the
\* most recent call for the name, and every call returned that row's id.
C10_Upsert ==
    /\ [](\A r1, r2 \in groups : (r1.name = r2.name \/ r1.id = r2.id) => r1 = r2)
    /\ [][\A q \in groups : \E r \in groups' : r.id = q.id /\ r.name = q.name]_vars
    /\ [][\A list \in GroupLists : RefreshGroups(list) => C10_Post(list)]_vars

\* The last refresh called insert_group twice for the name of row 1, which
\* was inserted by an earlier call, and left member_count at 7.
C10_Witness ==
    /\ Cardinality(groups) = 2
    /\ group_ids = <<1, 1>>
    /\ \E r \in groups : r.id = 1 /\ r.member_count = 7
    /\ member_ret = 2

StatusOf(summary_id) == (CHOOSE row \in summaries : row.id = summary_id).status

\* every new summaries row has status 'pending'
C4_Created ==
    [][\A row \in summaries' :
          (\A old \in summaries : old.id # row.id) => row.status = "pending"]_vars

\* a row's status only moves pending -> processing -> completed | failed, so
\* a completed or failed row never changes status again
C4_Order ==
    [][\A old \in summaries : \A new \in summaries' :
          (new.id = old.id /\ new.status # old.status) =>
              <<old.status, new.status>> \in {<<"pending", "processing">>,
                                              <<"processing", "completed">>,
                                              <<"processing", "failed">>}]_vars

\* the row is 'processing' or later once the messages have been loaded
C4_ProcessingBeforeLoad ==
    \A r \in Requests :
        sreq[r].pc \in {"check", "write", "complete", "except"} =>
            StatusOf(sreq[r].summary_id) # "pending"

\* a finished request that created a row left it 'completed' or 'failed'
C4_Finished ==
    \A r \in Requests :
        (sreq[r].pc = "done" /\ sreq[r].summary_id # None) =>
            StatusOf(sreq[r].summary_id) \in {"completed", "failed"}

\* C4: every summary row is created 'pending', is 'processing' before any
\* message is loaded and only then becomes 'completed' or 'failed'; when
\* POST /api/summaries has finished after creating the row, the row is
\* 'completed' or 'failed'; a 'completed' or 'failed' row never changes.
C4_Lifecycle ==
    /\ C4_Created
    /\ C4_Order
    /\ []C4_ProcessingBeforeLoad
    /\ []C4_Finished

\* What holds of C4: creation, order and finality of the statuses; a
\* finished request answered 200 exactly when its row is 'completed', and a
\* row left 'pending' or 'processing' belongs to a request answered 500.
C4_Partial ==
    /\ C4_Created
    /\ C4_Order
    /\ []C4_ProcessingBeforeLoad
    /\ [](\A r \in Requests :
            (sreq[r].pc = "done" /\ sreq[r].summary_id # None) =>
                /\ sreq[r].resp \in {200, 500}
                /\ sreq[r].resp = 200 <=> StatusOf(sreq[r].summary_id) = "completed")

\* C8: no two messages rows share (summary_id, msg_hash) for a non-null
\* summary_id; an insert_message call that finds its (msg_hash, summary_id)
\* stored returns None (the caller's saved_count stays) and stores nothing;
\* the rows of a summary are the inserts that returned an id.
C8_Dedup ==
    /\ [](\A m1, m2 \in messages :
            (m1.summary_id # None /\ m1.summary_id = m2.summary_id
                /\ m1.msg_hash = m2.msg_hash) => m1 = m2)
    /\ [](\A r \in Requests :
            sreq[r].pc \in {"check", "write", "complete"} =>
                Cardinality({m \in messages : m.summary_id = sreq[r].summary_id})
                    = sreq[r].saved_count)
    /\ [][\A r \in Requests :
            (/\ SumInsertCheck(r)
             /\ \E m \in messages :
                   /\ m.summary_id = sreq[r].summary_id
                   /\ m.msg_hash = msg_hash_of(sreq[r].msgs[sreq[r].idx]))
            => (/\ messages' = messages
                /\ sreq'[r].pc # "write"
                /\ sreq'[r].saved_count = sreq[r].saved_count)]_vars

\* A request loaded the same message twice and stored it once, while another
\* summary holds a row with the same hash.
C8_Witness ==
    \E r \in Requests :
        /\ sreq[r].pc = "complete"
        /\ Len(sreq[r].msgs) = 2
        /\ sreq[r].msgs[1] = sreq[r].msgs[2]
        /\ sreq[r].saved_count = 1
        /\ \E m1, m2 \in messages :
              /\ m1.summary_id = sreq[r].summary_id
              /\ m2.summary_id # m1.summary_id
              /\ m2.msg_hash = m1.msg_hash

(***************************************************************************)
(* C5                                                                      *)
(***************************************************************************)
Completed(task_id) ==
    /\ task_id \in DOMAIN download_tasks
    /\ download_tasks[task_id].status = "completed"
    /\ download_tasks[task_id].progress = "100%"
    /\ download_tasks[task_id].finished_at # NoneStr

Errored(task_id) ==
    /\ task_id \in DOMAIN download_tasks
    /\ download_tasks[task_id].status = "error"
    /\ download_tasks[task_id].error # NoneStr

\* the record is stored with 'pending' when {status: 'queued'} is returned,
\* and the worker has not touched it before that
C5_Stored ==
    /\ [][\A t \in TaskIds :
            (wpc[t] = "none" /\ wpc'[t] # "none") =>
                /\ wpc'[t] = "queued"
                /\ t \in DOMAIN download_tasks'
                /\ download_tasks'[t].status = "pending"]_vars
    /\ [](\A t \in DOMAIN download_tasks :
            wpc[t] = "queued" => download_tasks[t].status = "pending")

StatusSteps ==
    {<<"pending", "downloading">>,
     <<"downloading", "processing">>, <<"processing", "downloading">>,
     <<"downloading", "completed">>, <<"processing", "completed">>,
     <<"downloading", "error">>, <<"processing", "error">>}

\* the status of a stored task only moves along StatusSteps: 'pending' is left
\* for 'downloading', and 'completed' and 'error' are never left
C5_Walk ==
    [][\A t \in DOMAIN download_tasks \cap DOMAIN download_tasks' :
          download_tasks'[t].status # download_tasks[t].status =>
              <<download_tasks[t].status, download_tasks'[t].status>> \in StatusSteps]_vars

\* a stored task is eventually deleted, completed or in error
C5_Eventually ==
    \A t \in TaskIds :
        (t \in DOMAIN download_tasks) ~>
            (t \notin DOMAIN download_tasks \/ Completed(t) \/ Errored(t))

\* C5: download task lifecycle.  A task created by POST /api/download is
\* stored with status 'pending' before {status: 'queued'} is returned; the
\* worker moves it to 'downloading', progress callbacks switch it between
\* 'downloading' and 'processing'; unless it is deleted it eventually is
\* 'completed' with progress '100%' and finished_at set, or 'error' with the
\* error message set; 'completed' and 'error' are never left.
C5_Lifecycle == C5_Stored /\ C5_Walk /\ C5_Eventually

\* one task completed; another one ended in error after a callback had
\* reported its progress
C5_Witness ==
    \E t, u \in TaskIds :
        /\ Completed(t) /\ wpc[t] = "end"
        /\ Errored(u) /\ wpc[u] = "end" /\ download_tasks[u].progress = "50%"

AllWhitespace(s) == \A i \in 1..Len(s) : s[i] \in Whitespace

\* tk is s without its leading and trailing whitespace
IsStripped(tk, s) ==
    /\ tk # <<>> => (tk[1] \notin Whitespace /\ tk[Len(tk)] \notin Whitespace)
    /\ \E i \in 0..Len(s) : \E j \in i..Len(s) :
          /\ tk = SubSeq(s, i + 1, j)
          /\ AllWhitespace(SubSeq(s, 1, i))
          /\ AllWhitespace(SubSeq(s, j + 1, Len(s)))

Rejected(up) == up.raised \/ up.status_code \in {401, 403}

C7_Post ==
    LET body == creq.body
        status == creq'.status
    IN  /\ (body.kind = "no_key" \/ (body.kind = "str" /\ AllWhitespace(body.token))) =>
              (status = 400 /\ config_file' = config_file)
        /\ status = 400 => config_file' = config_file
        /\ status = 401 =>
              /\ config_file' = config_file
              /\ Rejected(creq'.up)
        /\ (body.kind = "str" /\ ~AllWhitespace(body.token)) =>
              (status = 401 <=> Rejected(creq'.up))
        /\ status = 200 =>
              /\ body.kind = "str"
              /\ ~Rejected(creq'.up)
              /\ config_file'.access_token # <<>>
              /\ IsStripped(config_file'.access_token, body.token)
        /\ (config_file'.access_token # config_file.access_token
              /\ config_file'.access_token # NoToken) =>
              (status = 200 /\ ~Rejected(creq'.up))

\* C7: POST /api/config/token answers 400 for an empty or whitespace-only
\* token and 401 for a token verification rejected (upstream 401/403 or a
\* request error), leaving access_token, token_configured_at and space_id as
\* they were; a token is stored only by a request that verification accepted,
\* and on success access_token is the submitted token, stripped.
C7_StoresVerifiedToken ==
    [][(creq.pc = "body" /\ creq'.pc = "done") => C7_Post]_vars

\* a token submitted with whitespace around it was accepted and is stored
\* stripped, next to the space_id configured before
C7_Witness ==
    /\ creq.pc = "done" /\ creq.status = 200
    /\ creq.body.token # config_file.access_token
    /\ IsStripped(config_file.access_token, creq.body.token)
    /\ config_file.space_id = "s1"

(***************************************************************************)
(* C11                                                                     *)
(***************************************************************************)
Min(a, b) == IF a < b THEN a ELSE b

\* the call reached the chat: the group exists, the instance was there and
\* the library returned the chat
C11_Served ==
    gm_call.called /\ gm_call.resp.status # 404 /\ gm_call.wx # None /\ ~gm_call.lib.raised

\* the last k entries of msgs, as the dicts built from them
LastDicts(msgs, k) ==
    [i \in 1..k |-> message_dict(msgs[Len(msgs) - k + i])]

\* C11: for a chat of n messages and every integer count the endpoint
\* accepts, get_group_messages returns exactly the last min(count, n)
\* messages in their original order, so never more than count entries; the
\* endpoint answers with these messages.
C11_LastCount ==
    C11_Served =>
        LET n == Len(gm_call.lib.msgs) IN
        /\ Len(gm_call.ret) <= gm_call.count
        /\ Len(gm_call.ret) = Min(gm_call.count, n)
        /\ gm_call.ret = LastDicts(gm_call.lib.msgs, Len(gm_call.ret))
        /\ gm_call.resp.status = 200 =>
              /\ gm_call.resp.total = Len(gm_call.ret)
              /\ \A i \in 1..Len(gm_call.ret) :
                    /\ gm_call.resp.messages[i].sender = gm_call.ret[i].sender
                    /\ gm_call.resp.messages[i].content = gm_call.ret[i].content

\* the same for the counts of at least 1
C11_PositiveCount == gm_call.count >= 1 => C11_LastCount

(***************************************************************************)
(* C12                                                                     *)
(***************************************************************************)
\* at most max_iterations rounds, at most batch_load_freq LoadMoreMessage
\* calls in a round, at most max_iterations * batch_load_freq calls in all
C12_Bounds ==
    /\ lm.iteration <= max_iterations
    /\ lm.i <= lm.batch_load_freq
    /\ lm.load_count <= lm.iteration * lm.batch_load_freq
    /\ lm.load_count <= max_iterations * lm.batch_load_freq

\* the last GetAllMessage of a round returned nothing, or messages whose
\* earliest parsed time marker is before the cutoff
C12_StopSeen ==
    \/ lm.last_all.kind = "empty"
    \/ /\ lm.last_all.kind = "msgs"
       /\ \E k \in 1..Len(lm.last_all.markers) : lm.last_all.markers[k] = "before"

\* once LoadMoreMessage has reported no more history the round's
\* GetAllMessage is the last thing the loop does, and after a GetAllMessage
\* that gives a reason to stop there is no further round and no further
\* LoadMoreMessage
C12_StopsEarly ==
    /\ [][lm.result = "top" =>
            /\ lm'.load_count = lm.load_count
            /\ lm'.iteration = lm.iteration
            /\ lm.pc \in {"getall", "after", "done"}
            /\ lm.pc = "getall" => lm'.pc \in {"after", "done"}]_vars
    /\ [][C12_StopSeen =>
            /\ lm'.load_count = lm.load_count
            /\ lm'.iteration = lm.iteration
            /\ lm.pc \in {"after", "done"}]_vars

\* C12: load_messages_by_date_range always terminates: it runs at most
\* max_iterations rounds of at most batch_load_freq LoadMoreMessage calls
\* each, and it stops earlier, after the round's GetAllMessage, as soon as
\* LoadMoreMessage reports no more history, GetAllMessage returns nothing,
\* or the earliest parsed time marker is before the cutoff.
C12_Terminates ==
    /\ []C12_Bounds
    /\ C12_StopsEarly
    /\ <>(lm.pc = "done")

\* a call that ran all its rounds in full and returned
C12_Witness ==
    /\ lm.pc = "done"
    /\ lm.ret = "filtered"
    /\ lm.iteration = max_iterations
    /\ lm.batch_load_freq = MaxFreq
    /\ lm.load_count = max_iterations * MaxFreq

====
